---- MODULE Spec2Model ----
(***************************************************************************)
(* Model of examples/saving_and_loading_data/coordinates_in_asdf.py:       *)
(* the loop geometry generator semi_circular_loop and the module-level     *)
(* script that prints, plots, saves and reloads the generated coordinates. *)
(*                                                                         *)
(* Floating-point quantities are fixed-point integers.  Lengths are in     *)
(* units of 0.1 Mm (the code works in cm; only the unit differs), angles   *)
(* and trigonometric values are in units of 1/S (S = 10^4: angles in       *)
(* 1e-4 rad).  NaN is an explicit value on which every comparison is       *)
(* false, as for IEEE doubles.                                             *)
(***************************************************************************)
EXTENDS Integers, Sequences, FiniteSets, TLC

\* Fixed-point resolution of angles and of cos/sin values.
S == 10000

\* const.R_sun in units of 0.1 Mm (695.7 Mm).
R1 == 6957

\* Number of samples of np.linspace.
NSamples == 2000

\* The IEEE not-a-number: a value outside the range of every number the
\* model computes, never used in arithmetic.
NaN == -2147483647

PI == (31416 * S) \div 10000
HalfPi == PI \div 2

IsNaN(v) == v = NaN

\* IEEE comparisons: false as soon as one side is NaN.
Gt(a, b) == (~IsNaN(a)) /\ (~IsNaN(b)) /\ a > b
Ge(a, b) == (~IsNaN(a)) /\ (~IsNaN(b)) /\ a >= b
Lt(a, b) == (~IsNaN(a)) /\ (~IsNaN(b)) /\ a < b

Abs(v) == IF v < 0 THEN -v ELSE v

\* Division rounded to nearest (d > 0).
RDiv(n, d) == (2 * n + d) \div (2 * d)

\* Fixed-point product of two values of scale S.
Mul(a, b) == RDiv(a * b, S)

\* IEEE arithmetic: NaN propagates.
Add(a, b) == IF IsNaN(a) \/ IsNaN(b) THEN NaN ELSE a + b
Sub(a, b) == IF IsNaN(a) \/ IsNaN(b) THEN NaN ELSE a - b

\* cos on [0, pi/2]: the Taylor polynomial up to x^10, in Horner form.
CosQ(x) ==
    LET x2 == Mul(x, x)
        t5 == S - RDiv(x2, 90)
        t4 == S - RDiv(Mul(x2, t5), 56)
        t3 == S - RDiv(Mul(x2, t4), 30)
        t2 == S - RDiv(Mul(x2, t3), 12)
    IN  S - RDiv(Mul(x2, t2), 2)

\* np.cos of an angle in [-2 pi, 2 pi] (scale S in, scale S out).
Cos(x) ==
    IF IsNaN(x) THEN NaN
    ELSE LET ax == Abs(x)
             bx == IF ax > PI THEN 2 * PI - ax ELSE ax
         IN  IF bx <= HalfPi THEN CosQ(bx) ELSE -CosQ(PI - bx)

\* sin on [0, pi/2]: the Taylor polynomial up to x^11, in Horner form.
SinQ(x) ==
    LET x2 == Mul(x, x)
        t5 == S - RDiv(x2, 110)
        t4 == S - RDiv(Mul(x2, t5), 72)
        t3 == S - RDiv(Mul(x2, t4), 42)
        t2 == S - RDiv(Mul(x2, t3), 20)
        t1 == S - RDiv(Mul(x2, t2), 6)
    IN  Mul(x, t1)

\* np.sin of an angle in [-pi, pi]: odd, and symmetric about pi/2.
Sin(x) ==
    IF IsNaN(x) THEN NaN
    ELSE LET ax == Abs(x)
             bx == IF ax <= HalfPi THEN ax ELSE PI - ax
             v  == SinQ(bx)
         IN  IF x < 0 THEN -v ELSE v

\* np.arccos: NaN outside [-1, 1]; otherwise the angle in [0, pi] whose
\* cosine is v (cos is decreasing there), found by interval halving.
RECURSIVE ArcCosIter(_, _, _)
ArcCosIter(v, lo, hi) ==
    IF hi - lo <= 1
    THEN IF Abs(Cos(lo) - v) <= Abs(Cos(hi) - v) THEN lo ELSE hi
    ELSE LET mid == (lo + hi) \div 2
         IN  IF Cos(mid) > v THEN ArcCosIter(v, mid, hi)
                             ELSE ArcCosIter(v, lo, mid)

ArcCos(v) ==
    IF IsNaN(v) \/ v > S \/ v < -S THEN NaN
    ELSE IF v = S THEN 0
    ELSE IF v = -S THEN PI
    ELSE ArcCosIter(v, 0, PI)

\* np.arcsin.
ArcSin(v) == LET a == ArcCos(v) IN IF IsNaN(a) THEN NaN ELSE HalfPi - a

\* Integer square root, rounded to nearest.
RECURSIVE SqrtIter(_, _, _)
SqrtIter(v, lo, hi) ==
    IF hi - lo <= 1
    THEN IF v - lo * lo <= hi * hi - v THEN lo ELSE hi
    ELSE LET mid == (lo + hi) \div 2
         IN  IF mid * mid <= v THEN SqrtIter(v, mid, hi)
                               ELSE SqrtIter(v, lo, mid)

\* np.sqrt: NaN on a negative argument.
Sqrt(v) == IF IsNaN(v) \/ v < 0 THEN NaN ELSE SqrtIter(v, 0, 46340)

(***************************************************************************)
(* Inputs.                                                                 *)
(***************************************************************************)

\* Arc lengths the generator is called with, in units of 0.1 Mm:
\* 100, 500, 1000 and 2000 Mm (the range the specification calls valid; the
\* script itself passes 500 Mm), 6000 Mm (between 2 pi r_1 and 4 pi r_1)
\* and 9000 Mm (above 4 pi r_1).
Lengths == {1000, 5000, 10000, 20000, 60000, 90000}

\* Latitude offsets theta0, in degrees (the script passes 30 deg).
Thetas == {-80, 0, 30, 80}

\* The lengths of the range 100 Mm .. 2000 Mm.
ValidLength(L) == 1000 <= L /\ L <= 20000

\* Angle conversions (np.deg2rad, np.rad2deg): degrees in, scale-S radians
\* out, and scale-S radians in, hundredths of a degree out.
Deg2Rad(d) == RDiv(d * PI, 180)
Rad2Deg(a) == IF IsNaN(a) THEN NaN ELSE RDiv(a * 18000, PI)

(***************************************************************************)
(* semi_circular_loop: the root finding.                                   *)
(***************************************************************************)

\* r_2_func(x) = arccos(0.5 x / r_1) - pi + length / 2 / x.
r_2_func(L, x) ==
    Add(Sub(ArcCos(RDiv(x * S, 2 * R1)), PI), RDiv(L * S, 2 * x))

\* The bracket handed to bisect: length / (2 pi) and length / pi.
BracketLo(L) == RDiv(L * S, 2 * PI)
BracketHi(L) == RDiv(L * S, PI)

\* fa * fb > 0 and fm * fa >= 0 on doubles: false when a factor is NaN.
ProdPos(p, q) == (Gt(p, 0) /\ Gt(q, 0)) \/ (Lt(p, 0) /\ Lt(q, 0))
ProdNonNeg(p, q) ==
    (~IsNaN(p)) /\ (~IsNaN(q)) /\ (p = 0 \/ q = 0 \/ ProdPos(p, q))

\* The loop of scipy's bisect: dm *= .5; xm = xa + dm; fm = f(xm);
\* if fm * fa >= 0 then xa = xm; stop when fm = 0 or |dm| is below the
\* tolerance (one unit of length here, 2e-12 + 4 eps |xm| on doubles).
\* The halving rounds up, so that xa + dm still covers the bracket.
\* The result records whether some evaluation of f was NaN.
RECURSIVE BisectLoop(_, _, _, _, _, _)
BisectLoop(L, xa, dm, fa, i, sawNaN) ==
    IF i = 0 THEN [status |-> "CONVERR", x |-> xa, nan |-> sawNaN]
    ELSE LET dm2 == (dm + 1) \div 2
             xm  == xa + dm2
             fm  == r_2_func(L, xm)
             saw == sawNaN \/ IsNaN(fm)
         IN  IF fm = 0 \/ dm2 <= 1
             THEN [status |-> "CONVERGED", x |-> xm, nan |-> saw]
             ELSE BisectLoop(L, IF ProdNonNeg(fm, fa) THEN xm ELSE xa,
                             dm2, fa, i - 1, saw)

\* scipy.optimize.bisect(f, a, b) with the default 100 iterations.
bisect(L, a, b) ==
    LET fa == r_2_func(L, a)
        fb == r_2_func(L, b)
        saw == IsNaN(fa) \/ IsNaN(fb)
    IN  IF ProdPos(fa, fb) THEN [status |-> "SIGNERR", x |-> 0, nan |-> saw]
        ELSE IF fa = 0 THEN [status |-> "CONVERGED", x |-> a, nan |-> saw]
        ELSE IF fb = 0 THEN [status |-> "CONVERGED", x |-> b, nan |-> saw]
        ELSE BisectLoop(L, a, b - a, fa, 100, saw)

\* What a build of the root finder does with a NaN function value: the
\* compiled loop alone lets the NaN through its comparisons ("proceed"); a
\* build whose wrapper checks every function value raises ValueError
\* ("raise").  Without a NaN the builds agree.
NaNPolicies(res) == IF res.nan THEN {"proceed", "raise"} ELSE {"proceed"}

(***************************************************************************)
(* semi_circular_loop: sampling, the quadratic formula and the filter.     *)
(***************************************************************************)

\* alpha = arccos(0.5 * r_2 / r_1).
Alpha(r2) == IF IsNaN(r2) THEN NaN ELSE ArcCos(RDiv(r2 * S, 2 * R1))

\* np.linspace(start, stop, n)[i], i in 1..n: start + (i-1) * step, the
\* last sample being stop itself.
Linspace(start, stop, n, i) ==
    IF IsNaN(start) \/ IsNaN(stop) THEN NaN
    ELSE start + RDiv((stop - start) * (i - 1), n - 1)

\* Mutant: the upper end of the range taken as pi + alpha.
PhiShifted(al) ==
    [i \in 1..NSamples |-> Linspace(Add(-PI, al), Add(PI, al), NSamples, i)]

\* phi = np.linspace(-pi + alpha, pi - alpha, 2000).
Phi(al) ==
    [i \in 1..NSamples |-> Linspace(Add(-PI, al), Sub(PI, al), NSamples, i)]

\* Mutant: the other root of the quadratic, (-b - sqrt(b^2 - 4 a c)) / 2 / a.
QuadRMinus(r2, ph) ==
    LET cs == Cos(ph)
    IN  IF IsNaN(cs) \/ IsNaN(r2) THEN NaN
        ELSE LET b  == -RDiv(2 * R1 * cs, S)
                 c  == R1 * R1 - r2 * r2
                 sq == Sqrt(b * b - 4 * c)
             IN  IF IsNaN(sq) THEN NaN ELSE RDiv(-b - sq, 2)

\* r = (-b + sqrt(b^2 - 4 a c)) / 2 / a with a = 1, b = -2 r_1 cos(phi),
\* c = r_1^2 - r_2^2.
QuadR(r2, ph) ==
    LET cs == Cos(ph)
    IN  IF IsNaN(cs) \/ IsNaN(r2) THEN NaN
        ELSE LET b  == -RDiv(2 * R1 * cs, S)
                 c  == R1 * R1 - r2 * r2
                 sq == Sqrt(b * b - 4 * c)
             IN  IF IsNaN(sq) THEN NaN ELSE RDiv(sq - b, 2)

\* Mutants of the test: the comparison turned round, and a sample on the
\* surface let through.
AboveBelow(rv) == Lt(rv, R1)
AboveOrOn(rv) == Ge(rv, R1)

\* The test of np.where(r > r_1).
Above(rv) == Gt(rv, R1)

\* i_r = np.where(r > r_1): the indices of the samples above the surface,
\* in increasing order.
Where(rs) ==
    SelectSeq([i \in 1..Len(rs) |-> i], LAMBDA i : Above(rs[i]))

\* a[i_r]: fancy indexing by an index array.
Take(a, idx) == [k \in 1..Len(idx) |-> a[idx[k]]]

(***************************************************************************)
(* semi_circular_loop: the coordinate object.                              *)
(***************************************************************************)

\* u.Quantity(n * [0 * u.cm]): a Quantity built from a list takes the unit
\* of the list's items; an empty list has no item and gives a
\* dimensionless Quantity.
ZeroQuantity(n) ==
    [value |-> [k \in 1..n |-> 0],
     unit  |-> IF n > 0 THEN "cm" ELSE "dimensionless"]

\* x = r * sin(phi) and z = r * cos(phi), in cm like r.
XQuantity(rs, ph) ==
    [value |-> [k \in 1..Len(rs) |-> Mul(rs[k], Sin(ph[k]))], unit |-> "cm"]
ZQuantity(rs, ph) ==
    [value |-> [k \in 1..Len(rs) |-> Mul(rs[k], Cos(ph[k]))], unit |-> "cm"]

\* The Cartesian components of a Heliocentric coordinate must all be
\* lengths: a component of another physical type is a UnitsError.
CartesianOk(x, y, z) == x.unit = y.unit /\ y.unit = z.unit

\* np.arctan2(y, x) for (y, x) # (0, 0), from arcsin where |y| <= |x| and
\* from arccos elsewhere.
ArcTan2(y, x) ==
    LET h == Sqrt(x * x + y * y)
    IN  IF h = 0 THEN 0
        ELSE IF Abs(y) <= Abs(x)
        THEN LET base == ArcSin(RDiv(Abs(y) * S, h))
                 ang  == IF x > 0 THEN base ELSE PI - base
             IN  IF y < 0 THEN -ang ELSE ang
        ELSE LET ang == ArcCos(RDiv(x * S, h))
             IN  IF y < 0 THEN -ang ELSE ang

\* Heliocentric (x, y, z; observer at longitude 0, latitude b0) to
\* Heliographic Stonyhurst (lon, lat in degrees, radius):
\*   radius = sqrt(x^2 + y^2 + z^2)
\*   lon    = arctan2(x, z cos(b0) - y sin(b0))
\*   lat    = arcsin((y cos(b0) + z sin(b0)) / radius).
hcc_to_hgs(x, y, z, b0) ==
    LET cosb == Cos(b0)
        sinb == Sin(b0)
        hecr == Sqrt(x * x + y * y + z * z)
        hgln == ArcTan2(x, Mul(z, cosb) - Mul(y, sinb))
        hglt == ArcSin(RDiv((Mul(y, cosb) + Mul(z, sinb)) * S, hecr))
    IN  [lon |-> Rad2Deg(hgln), lat |-> Rad2Deg(hglt), radius |-> hecr]

\* SkyCoord(x=, y=, z=, frame=hcc_frame).transform_to('heliographic_stonyhurst').
SkyCoordHGS(x, y, z, t0) ==
    [k \in 1..Len(x.value) |->
        hcc_to_hgs(x.value[k], y.value[k], z.value[k], Deg2Rad(t0))]

(***************************************************************************)
(* The script: printing, saving and loading.                               *)
(***************************************************************************)

\* loop_coords[[0, -1]]: the first and the last point; an IndexError on an
\* empty coordinate object.
FirstLast(c) == <<c[1], c[Len(c)]>>

\* loop_coords.frame: the frame object under the SkyCoord, same points.
Frame(c) == [name |-> "heliographic_stonyhurst", points |-> c]

\* Mutant: the tree holds the frame of the two printed points only.
TreeEnds(c) == [loop_points |-> Frame(FirstLast(c))]

\* tree = {'loop_points': loop_coords.frame}.
Tree(c) == [loop_points |-> Frame(c)]

\* What write_to puts in the file: under each key of the tree, the frame's
\* name and its data, one array per component.
Serialize(t) ==
    [k \in DOMAIN t |->
        [frame    |-> t[k].name,
         lon      |-> [i \in 1..Len(t[k].points) |-> t[k].points[i].lon],
         lat      |-> [i \in 1..Len(t[k].points) |-> t[k].points[i].lat],
         distance |-> [i \in 1..Len(t[k].points) |-> t[k].points[i].radius]]]

\* What asdf.open gives back: under each key, the frame rebuilt from the
\* component arrays.
Deserialize(f) ==
    [k \in DOMAIN f |->
        [name   |-> f[k].frame,
         points |-> [i \in 1..Len(f[k].lon) |->
                        [lon    |-> f[k].lon[i],
                         lat    |-> f[k].lat[i],
                         radius |-> f[k].distance[i]]]]]

\* new_coords = SkyCoord(coords): the coordinate object over a frame.
NewCoords(fr) == fr.points

\* The file loop_coords.asdf before the script runs: absent, or left there
\* by an earlier run with other loop points.
Absent == [none |-> "absent"]
Stale ==
    [loop_points |->
        [frame |-> "heliographic_stonyhurst",
         lon |-> <<0>>, lat |-> <<0>>, distance |-> <<R1 + 1>>]]

VARIABLES
    pc,           \* the line the script is at
    length,       \* semi_circular_loop's length, in 0.1 Mm
    theta0,       \* semi_circular_loop's theta0, in degrees
    r_2,          \* the root found by bisect
    alpha,        \* the excluded half-angle
    phi,          \* the sample angles (all 2000, then the kept ones)
    r,            \* the sample radii (all 2000, then the kept ones)
    i_r,          \* the indices np.where returns
    loop_coords,  \* the coordinate object semi_circular_loop returns
    asdf_file,    \* the writer-side file object: "none", "open", "closed"
    input_asdf,   \* the reader-side file object: "none", "open", "closed"
    disk,         \* the contents of loop_coords.asdf
    new_coords,   \* the coordinate object loaded back
    out,          \* what the script has printed
    err,          \* the exception that ended the script, or "none"
    trace         \* the steps taken so far, in order

vars == <<pc, length, theta0, r_2, alpha, phi, r, i_r, loop_coords,
          asdf_file, input_asdf, disk, new_coords, out, err, trace>>

gen == <<length, theta0, r_2, alpha, phi, r, i_r>>
files == <<asdf_file, input_asdf, disk, new_coords>>

Init ==
    /\ pc = "bisect"
    /\ length \in Lengths
    /\ theta0 \in Thetas
    /\ r_2 = NaN
    /\ alpha = NaN
    /\ phi = << >>
    /\ r = << >>
    /\ i_r = << >>
    /\ loop_coords = << >>
    /\ asdf_file = "none"
    /\ input_asdf = "none"
    /\ disk \in {Absent, Stale}
    /\ new_coords = << >>
    /\ out = << >>
    /\ err = "none"
    /\ trace = << >>

\* Mutant: the exception is caught and the step tried again.
RaiseAndRetry(e) == pc' = pc /\ err' = e

\* An exception nobody catches: the script ends there.
Raise(e) == pc' = "failed" /\ err' = e

\* The step at pc is taken and control moves on to line `to`.
Goto(to) == pc' = to /\ err' = err

\* Mutant: the file object is not closed when the block is left.
WithExitLeak(h) == h

\* Leaving a with block, normally or by an exception: __exit__ closes the
\* file object.
WithExit(h) == "closed"

\* Mutant: the reading block nested inside the writing block.
AfterWriteToNested == "open_read"

\* write_to is the last statement of its with block: the block is left
\* before line 121 opens the file for reading.
AfterWriteTo == "exit_write"

\* Lines 51-53: r_2 = scipy.optimize.bisect(r_2_func, length/(2 pi), length/pi).
Bisect ==
    /\ pc = "bisect"
    /\ trace' = Append(trace, "bisect")
    /\ LET res == bisect(length, BracketLo(length), BracketHi(length))
       IN  \E policy \in NaNPolicies(res) :
             IF res.status # "CONVERGED" \/ policy = "raise"
             THEN Raise("ValueError") /\ UNCHANGED r_2
             ELSE r_2' = res.x /\ Goto("sample")
    /\ UNCHANGED <<length, theta0, alpha, phi, r, i_r, loop_coords, out>>
    /\ UNCHANGED files

\* Lines 54-61: alpha, phi and the quadratic formula for r.
Sample ==
    /\ pc = "sample"
    /\ trace' = Append(trace, "sample")
    /\ alpha' = Alpha(r_2)
    /\ phi' = Phi(alpha')
    /\ r' = [i \in 1..NSamples |-> QuadR(r_2, phi'[i])]
    /\ Goto("filter")
    /\ UNCHANGED <<length, theta0, r_2, i_r, loop_coords, out>>
    /\ UNCHANGED files

\* Lines 63-65: i_r = np.where(r > r_1); r = r[i_r]; phi = phi[i_r].
Filter ==
    /\ pc = "filter"
    /\ trace' = Append(trace, "filter")
    /\ i_r' = Where(r)
    /\ r' = Take(r, i_r')
    /\ phi' = Take(phi, i_r')
    /\ Goto("build")
    /\ UNCHANGED <<length, theta0, r_2, alpha, loop_coords, out>>
    /\ UNCHANGED files

\* Lines 66-73: the Heliocentric frame, the SkyCoord and its transformation;
\* semi_circular_loop returns and its locals are gone.
Build ==
    /\ pc = "build"
    /\ trace' = Append(trace, "build")
    /\ LET x == XQuantity(r, phi)
           y == ZeroQuantity(Len(r))
           z == ZQuantity(r, phi)
       IN  IF CartesianOk(x, y, z)
           THEN /\ loop_coords' = SkyCoordHGS(x, y, z, theta0)
                /\ Goto("print")
           ELSE /\ Raise("UnitsError")
                /\ UNCHANGED loop_coords
    /\ UNCHANGED <<length, theta0, r_2, alpha, phi, r, i_r, out>>
    /\ UNCHANGED files

\* Lines 80-82: print(loop_coords.shape); print(loop_coords[[0, -1]]).
PrintLoop ==
    /\ pc = "print"
    /\ trace' = Append(trace, "print")
    /\ IF Len(loop_coords) = 0
       THEN Raise("IndexError") /\ out' = Append(out, 0)
       ELSE /\ out' = out \o <<Len(loop_coords), FirstLast(loop_coords)>>
            /\ Goto("plot")
    /\ UNCHANGED <<loop_coords>>
    /\ UNCHANGED gen
    /\ UNCHANGED files

\* Lines 89-93: the map of the sample image and the overplotted loop.
Plot ==
    /\ pc = "plot"
    /\ trace' = Append(trace, "plot")
    /\ Goto("enter_write")
    /\ UNCHANGED <<loop_coords, out>>
    /\ UNCHANGED gen
    /\ UNCHANGED files

\* Lines 89-93 failing (the sample image cannot be fetched or read).
PlotFails ==
    /\ pc = "plot"
    /\ trace' = Append(trace, "plot")
    /\ Raise("PlotError")
    /\ UNCHANGED <<loop_coords, out>>
    /\ UNCHANGED gen
    /\ UNCHANGED files

\* Lines 111-113: the tree, and the AsdfFile entered by the with statement.
EnterWrite ==
    /\ pc = "enter_write"
    /\ trace' = Append(trace, "enter_write")
    /\ asdf_file' = "open"
    /\ Goto("write")
    /\ UNCHANGED <<input_asdf, disk, new_coords, loop_coords, out>>
    /\ UNCHANGED gen

\* Line 114: asdf_file.write_to("loop_coords.asdf").
WriteTo ==
    /\ pc = "write"
    /\ trace' = Append(trace, "write")
    /\ disk' = Serialize(Tree(loop_coords))
    /\ Goto(AfterWriteTo)
    /\ UNCHANGED <<asdf_file, input_asdf, new_coords, loop_coords, out>>
    /\ UNCHANGED gen

\* Line 114 failing (the path is unwritable, the disk is full): the
\* exception leaves the with block.
WriteToFails ==
    /\ pc = "write"
    /\ trace' = Append(trace, "write")
    /\ asdf_file' = WithExit(asdf_file)
    /\ Raise("OSError")
    /\ UNCHANGED <<input_asdf, disk, new_coords, loop_coords, out>>
    /\ UNCHANGED gen

\* The end of the with block of lines 113-114.
ExitWrite ==
    /\ pc = "exit_write"
    /\ trace' = Append(trace, "exit_write")
    /\ asdf_file' = WithExit(asdf_file)
    /\ Goto("open_read")
    /\ UNCHANGED <<input_asdf, disk, new_coords, loop_coords, out>>
    /\ UNCHANGED gen

\* Line 121: asdf.open("loop_coords.asdf"), entered by the with statement.
OpenRead ==
    /\ pc = "open_read"
    /\ trace' = Append(trace, "open_read")
    /\ disk # Absent
    /\ input_asdf' = "open"
    /\ Goto("load")
    /\ UNCHANGED <<asdf_file, disk, new_coords, loop_coords, out>>
    /\ UNCHANGED gen

\* Line 121 failing (the file is missing, corrupt or of an incompatible
\* schema): no file object is returned.
OpenReadFails ==
    /\ pc = "open_read"
    /\ trace' = Append(trace, "open_read")
    /\ Raise("ReadError")
    /\ UNCHANGED <<asdf_file, input_asdf, disk, new_coords, loop_coords, out>>
    /\ UNCHANGED gen

\* Lines 122-123: coords = input_asdf.tree['loop_points'];
\* new_coords = SkyCoord(coords).
Load ==
    /\ pc = "load"
    /\ trace' = Append(trace, "load")
    /\ new_coords' = NewCoords(Deserialize(disk).loop_points)
    /\ Goto("exit_read")
    /\ UNCHANGED <<asdf_file, input_asdf, disk, loop_coords, out>>
    /\ UNCHANGED gen

\* Lines 122-123 failing (the data cannot be read or rebuilt): the
\* exception leaves the with block.
LoadFails ==
    /\ pc = "load"
    /\ trace' = Append(trace, "load")
    /\ input_asdf' = WithExit(input_asdf)
    /\ Raise("ReadError")
    /\ UNCHANGED <<asdf_file, disk, new_coords, loop_coords, out>>
    /\ UNCHANGED gen

\* The end of the with block of lines 121-123.
ExitRead ==
    /\ pc = "exit_read"
    /\ trace' = Append(trace, "exit_read")
    /\ input_asdf' = WithExit(input_asdf)
    /\ Goto("print_new")
    /\ UNCHANGED <<asdf_file, disk, new_coords, loop_coords, out>>
    /\ UNCHANGED gen

\* Lines 125-127: print(new_coords.shape); print(new_coords[[0, -1]]).
PrintNew ==
    /\ pc = "print_new"
    /\ trace' = Append(trace, "print_new")
    /\ out' = out \o <<Len(new_coords), FirstLast(new_coords)>>
    /\ Goto("done")
    /\ UNCHANGED <<loop_coords>>
    /\ UNCHANGED gen
    /\ UNCHANGED files

Next ==
    \/ Bisect
    \/ Sample
    \/ Filter
    \/ Build
    \/ PrintLoop
    \/ Plot
    \/ PlotFails
    \/ EnterWrite
    \/ WriteTo
    \/ WriteToFails
    \/ ExitWrite
    \/ OpenRead
    \/ OpenReadFails
    \/ Load
    \/ LoadFails
    \/ ExitRead
    \/ PrintNew

Spec == Init /\ [][Next]_vars

(***************************************************************************)
(* Properties.                                                             *)
(***************************************************************************)

Range(q) == {q[k] : k \in 1..Len(q)}

\* semi_circular_loop has returned its coordinate object.
Returned == "build" \in Range(trace) /\ err # "UnitsError"

\* The latitude of the anchor point, in hundredths of a degree.
AnchorLat == theta0 * 100

\* C1: every point of the sequence semi_circular_loop returns is at a
\* distance from the body centre of at least the surface radius r_1: the
\* radii kept by the filter are above r_1 and so are the radii of the
\* returned Stonyhurst points.
C1_AboveSurface ==
    /\ pc = "build" => \A k \in 1..Len(r) : r[k] > R1
    /\ \A k \in 1..Len(loop_coords) : loop_coords[k].radius >= R1

C1_Witness ==
    /\ pc = "print"
    /\ Len(loop_coords) > 1
    /\ \E k \in 1..Len(loop_coords) : loop_coords[k].radius > R1 + 1000

C3_OffsetsOpposite ==
    Returned /\ Len(loop_coords) > 0 =>
        LET f == loop_coords[1]
            l == loop_coords[Len(loop_coords)]
        IN  /\ Abs(f.lon + l.lon) <= 2
            /\ Abs((f.lat - AnchorLat) + (l.lat - AnchorLat)) <= 2

\* C3, amended: the first and the last returned point are mirror images in
\* the meridian of the anchor point: opposite longitudes, the same latitude
\* and the same radius (to within two units of the arithmetic).
C3_Mirror ==
    Returned /\ Len(loop_coords) > 0 =>
        LET f == loop_coords[1]
            l == loop_coords[Len(loop_coords)]
        IN  /\ Abs(f.lon + l.lon) <= 2
            /\ Abs(f.lat - l.lat) <= 2
            /\ Abs(f.radius - l.radius) <= 2

C3_Witness ==
    /\ pc = "print"
    /\ theta0 = 30
    /\ Len(loop_coords) > 1
    /\ loop_coords[1].lon < -100
    /\ loop_coords[Len(loop_coords)].lon > 100
    /\ loop_coords[1].lat < AnchorLat - 50

\* C4: for a length between 100 Mm and 2000 Mm and a latitude offset in
\* [-80, 80] degrees semi_circular_loop returns, and what it returns is not
\* empty.
C4_NonEmpty ==
    ValidLength(length) /\ theta0 \in -80..80
                        /\ pc \notin {"bisect", "sample", "filter", "build"} =>
        /\ Returned
        /\ Len(loop_coords) > 0

C4_Witness ==
    /\ pc = "print"
    /\ ValidLength(length)
    /\ theta0 = -80
    /\ Len(loop_coords) > 0

\* x is a root of r_2_func to within the resolution of the arithmetic
\* (r_2_func is decreasing where it is defined).
IsRoot(L, x) ==
    /\ ~IsNaN(x)
    /\ ~IsNaN(r_2_func(L, x))
    /\ Ge(r_2_func(L, x - 2), 0)
    /\ ~Gt(r_2_func(L, x + 2), 0)

\* C5: the root finding either fails with an error or hands a valid root
\* r_2 of the loop equation to the later steps.
C5_ValidRootOrError ==
    pc \notin {"bisect", "failed"} \/ (pc = "failed" /\ trace # <<"bisect">>) =>
        IsRoot(length, r_2)

\* C6: when the filter leaves no sample, semi_circular_loop raises no error
\* and returns an empty sequence.
C6_EmptyReturned ==
    "build" \in Range(trace) /\ Len(i_r) = 0 =>
        /\ Returned
        /\ loop_coords = << >>

\* C7: a step is taken only while no step has failed, no step is taken
\* twice, and a failing step ends the script.
C7_FailureTerminates ==
    [][/\ err = "none"
       /\ pc \notin Range(trace)
       /\ trace' = Append(trace, pc)
       /\ err' # "none" => pc' = "failed"]_vars

C7_Witness ==
    /\ pc = "failed"
    /\ err = "OSError"
    /\ trace[Len(trace)] = "write"

\* C8: when the script has ended, normally or by an exception, neither the
\* writer-side nor the reader-side file object is open.
C8_Released ==
    pc \in {"done", "failed"} =>
        /\ asdf_file # "open"
        /\ input_asdf # "open"

C8_Witness ==
    /\ pc = "failed"
    /\ err = "ReadError"
    /\ asdf_file = "closed"
    /\ input_asdf = "closed"

\* C9: the filter keeps sample i exactly when r[i] is a number strictly
\* above r_1; the kept samples stay in their order, each kept r stays with
\* its phi, and at most 2000 samples are kept.
C9_Filter ==
    [][pc = "filter" =>
        LET kept == Range(i_r')
        IN  /\ Len(r) = NSamples
            /\ \A i \in 1..NSamples :
                  i \in kept <=> (~IsNaN(r[i]) /\ r[i] > R1)
            /\ \A k \in 1..(Len(i_r') - 1) : i_r'[k] < i_r'[k + 1]
            /\ Len(r') = Len(i_r')
            /\ Len(phi') = Len(i_r')
            /\ Len(r') <= NSamples
            /\ \A k \in 1..Len(i_r') :
                  r'[k] = r[i_r'[k]] /\ phi'[k] = phi[i_r'[k]]
            /\ \A k \in 1..(Len(phi') - 1) : phi'[k] <= phi'[k + 1]]_vars

\* The filter has run on samples of which some were NaN, some exactly on the
\* surface and some above it.
C9_Witness ==
    /\ pc = "build"
    /\ Len(i_r) > 0
    /\ i_r[1] > 2
    /\ i_r[Len(i_r)] < NSamples - 1
    /\ IsNaN(QuadR(r_2, Phi(alpha)[1]))
    /\ QuadR(r_2, Phi(alpha)[i_r[1] - 1]) = R1

\* C10: the file is opened for reading only after write_to has succeeded and
\* the writer-side file object is closed; the two file objects are never
\* open together; coordinates are loaded only from what this run wrote.
C10_WriteBeforeRead ==
    /\ input_asdf # "none" =>
          /\ asdf_file = "closed"
          /\ "exit_write" \in Range(trace)
          /\ disk = Serialize(Tree(loop_coords))
    /\ ~(asdf_file = "open" /\ input_asdf = "open")
    /\ new_coords # << >> => "exit_write" \in Range(trace)

C10_Witness ==
    /\ input_asdf = "open"
    /\ asdf_file = "closed"
    /\ pc = "load"
====
